---- MODULE Spec2Model ----
(***************************************************************************)
(* Order lifecycle of the Biazzi order server, in its two storage          *)
(* variants: the better-sqlite3 server (src/server.js, lines 1-386) and    *)
(* the PostgreSQL server (src/unnamed/part_000).  The store is the three   *)
(* tables orders, order_items and history plus the id sequence of orders;  *)
(* every HTTP handler is one action, and so is the scheduled digest job.   *)
(* env is the process environment, fetch the outbound HTTP call of the     *)
(* last request, txns the update transaction each pg client has open and   *)
(* statsq the pg stats request that is between two of its queries.  Money  *)
(* and quantities are integers (cents, grams); the store-managed           *)
(* timestamps are not modelled.                                            *)
(***************************************************************************)
EXTENDS Integers, Sequences, FiniteSets, TLC

VARIABLES variant, env, orders, order_items, history, orders_id_seq, req, res, fetch, nops,
          txns, statsq

vars == <<variant, env, orders, order_items, history, orders_id_seq, req, res, fetch, nops,
          txns, statsq>>

(***************************************************************************)
(* Bounds of the model.                                                    *)
(***************************************************************************)
\* ids the store hands out, and ids a request may name
MaxOrders == 2
\* requests handled in one run
MaxOps == 3
\* requests handled in one run of the settlement cycle
MaxSettleOps == 4
\* requests handled in one run of the reporting endpoints
MaxReportOps == 4
\* requests and scheduled jobs handled in one run of the digest
MaxDispatchOps == 3
\* requests that arrive in one run of the overlapping requests
MaxConcurrentOps == 3

(***************************************************************************)
(* Values.                                                                 *)
(***************************************************************************)
\* JS undefined / SQL NULL
NULL == "NULL"

Variants == {"sqlite", "pg"}

\* new Date().toISOString().split('T')[0]
Today == "D1"

Meat == [type |-> "meat", qty |-> 2, price |-> 40, subtotal |-> 80]
Chicken == [type |-> "chicken", qty |-> 3, price |-> 10, subtotal |-> 30]
Ribs == [type |-> "ribs", qty |-> 1, price |-> 50, subtotal |-> 50]
\* a line item without a type: order_items.type is NOT NULL
NoType == [qty |-> 1, price |-> 5, subtotal |-> 5]

OrderIds == 1..MaxOrders

\* the connections that run an update each
Clients == {"c1", "c2"}

\* a client without an open transaction
Idle == [pc |-> "idle"]

\* no stats request is between two queries
NoStats == [pc |-> 0]

\* the empty JSON object
EmptyBody == [f \in {} |-> NULL]

\* the objects S extended by field k with a value of V, or without it
WithField(S, k, V) == S \cup {b @@ (k :> v) : b \in S, v \in V}

\* POST bodies: the reference body and every body that differs from it in one field
CreateReference == [name |-> "A", phone |-> "9", items |-> <<Meat, Chicken>>, payment |-> "pix", order_date |-> "D2"]

Without(b, k) == [f \in DOMAIN b \ {k} |-> b[f]]

CreateBodies ==
  {CreateReference}
    \cup {Without(CreateReference, k) : k \in DOMAIN CreateReference}
    \cup {[CreateReference EXCEPT !.name = ""], [CreateReference EXCEPT !.payment = ""]}
    \cup {[CreateReference EXCEPT !.items = v] : v \in {<<>>, <<Meat>>, <<Meat, NoType>>}}

\* PUT bodies: one field at most beside the status; every edit comes without a
\* status and with paid, the rename also with pending and cancelled
UpdateEdits ==
  WithField({EmptyBody}, "name", {"B"})
    \cup WithField({EmptyBody}, "phone", {"8"})
    \cup WithField({EmptyBody}, "payment", {"cash"})
    \cup WithField({EmptyBody}, "order_date", {"D3"})
    \cup WithField({EmptyBody}, "items", {<<>>, <<Chicken>>, <<Chicken, NoType>>})

UpdateBodies ==
  WithField(UpdateEdits, "status", {"paid"})
    \cup WithField(WithField({EmptyBody}, "name", {"B"}), "status", {"pending", "cancelled"})

\* PUT bodies that carry a status and nothing else
StatusBodies == WithField({EmptyBody}, "status", {"pending", "paid", "cancelled"}) \ {EmptyBody}

\* statements of a handler at which the store may fail
Faults == {"none", "insert_order", "update", "delete", "insert_item", "history"}

(***************************************************************************)
(* Request helpers.                                                        *)
(***************************************************************************)
\* the field was sent in the JSON body
Has(body, k) == k \in DOMAIN body

\* a destructured text field of the body: undefined when it was not sent
Field(body, k) == IF Has(body, k) THEN body[k] ELSE NULL

\* JS truthiness of a text field
Truthy(v) == v # NULL /\ v # ""

\* faulty variant of Coalesce: the column takes the parameter even when it is NULL
CoalesceTakesParameter(v, old) == v

\* SQL COALESCE(?, column)
Coalesce(v, old) == IF v = NULL THEN old ELSE v

\* items.reduce((s, i) => s + i.subtotal, 0)
RECURSIVE SumSubtotals(_)
SumSubtotals(items) ==
  IF items = <<>> THEN 0 ELSE items[1].subtotal + SumSubtotals(Tail(items))

(***************************************************************************)
(* The store: one value for the three tables and the id sequence.          *)
(***************************************************************************)
Db == [orders |-> orders, order_items |-> order_items, history |-> history, seq |-> orders_id_seq]

\* SELECT * FROM order_items WHERE order_id = ?
SelectItems(db, id) == SelectSeq(db.order_items, LAMBDA r : r.order_id = id)

\* the helper that hydrates an order with its line items
getOrderWithItems(db, id) ==
  [id |-> id, name |-> db.orders[id].name, phone |-> db.orders[id].phone,
   total |-> db.orders[id].total, payment |-> db.orders[id].payment,
   status |-> db.orders[id].status, order_date |-> db.orders[id].order_date,
   items |-> SelectItems(db, id)]

\* faulty variant of InsertOrder: the id is one more than the largest stored id
InsertOrderReusingIds(db, name, phone, total, payment, date) ==
  LET id == IF DOMAIN db.orders = {} THEN 1
            ELSE 1 + CHOOSE m \in DOMAIN db.orders : \A i \in DOMAIN db.orders : i <= m
  IN  [db EXCEPT !.seq = id,
                 !.orders = db.orders @@ (id :>
                    [name |-> name, phone |-> phone, total |-> total, payment |-> payment,
                     status |-> "pending", order_date |-> date])]

\* INSERT INTO orders (name, phone, total, payment, order_date): the next id, status by default
InsertOrder(db, name, phone, total, payment, date) ==
  [db EXCEPT !.seq = db.seq + 1,
             !.orders = db.orders @@ ((db.seq + 1) :>
                [name |-> name, phone |-> phone, total |-> total, payment |-> payment,
                 status |-> "pending", order_date |-> date])]

\* the NOT NULL columns of order_items accept the row
ItemAccepted(item) == Field(item, "type") # NULL

\* INSERT INTO order_items (order_id, type, qty, price, subtotal)
InsertItem(db, id, item) ==
  [db EXCEPT !.order_items = Append(db.order_items,
      [order_id |-> id, type |-> item.type, qty |-> item.qty,
       price |-> item.price, subtotal |-> item.subtotal])]

\* the for loop over the items, stopped by the first statement that fails
RECURSIVE InsertItems(_, _, _, _)
InsertItems(db, id, items, failFirst) ==
  IF items = <<>> THEN [db |-> db, ok |-> TRUE]
  ELSE IF failFirst \/ ~ItemAccepted(items[1]) THEN [db |-> db, ok |-> FALSE]
  ELSE InsertItems(InsertItem(db, id, items[1]), id, Tail(items), FALSE)

\* UPDATE orders SET name = COALESCE(?, name), ..., total = ? WHERE id = ?
UpdateOrderRow(db, id, body, total) ==
  [db EXCEPT !.orders[id] =
     [name |-> Coalesce(Field(body, "name"), @.name),
      phone |-> Coalesce(Field(body, "phone"), @.phone),
      total |-> total,
      payment |-> Coalesce(Field(body, "payment"), @.payment),
      status |-> Coalesce(Field(body, "status"), @.status),
      order_date |-> Coalesce(Field(body, "order_date"), @.order_date)]]

\* DELETE FROM order_items WHERE order_id = ?
DeleteItems(db, id) ==
  [db EXCEPT !.order_items = SelectSeq(db.order_items, LAMBDA r : r.order_id # id)]

\* faulty variant of DeleteOrderRow: the history rows of the order go with it
DeleteOrderRowWithHistory(db, id) ==
  [db EXCEPT !.orders = [i \in DOMAIN db.orders \ {id} |-> db.orders[i]],
             !.order_items = SelectSeq(db.order_items, LAMBDA r : r.order_id # id),
             !.history = SelectSeq(db.history, LAMBDA h : h.order_id # id)]

\* faulty variant of DeleteOrderRow: the line items of the order stay
DeleteOrderRowNoCascade(db, id) ==
  [db EXCEPT !.orders = [i \in DOMAIN db.orders \ {id} |-> db.orders[i]]]

\* DELETE FROM orders WHERE id = ?, with order_items ON DELETE CASCADE
DeleteOrderRow(db, id) ==
  [DeleteItems(db, id) EXCEPT !.orders = [i \in DOMAIN db.orders \ {id} |-> db.orders[i]]]

\* INSERT INTO history (order_id, name, phone, total, payment, status, items_json, created_at, order_date)
InsertHistory(db, updated, newStatus) ==
  [db EXCEPT !.history = Append(db.history,
      [order_id |-> updated.id, name |-> updated.name, phone |-> updated.phone,
       total |-> updated.total, payment |-> updated.payment, status |-> newStatus,
       items_json |-> updated.items, order_date |-> updated.order_date])]

\* faulty variant of Rollback: the statements executed before the failure stay
RollbackKeepsWork(v, before, work) == work

\* the end of a transaction that threw: the tables as they were at its start.
\* PostgreSQL does not take back the values drawn from a SERIAL sequence.
Rollback(v, before, work) ==
  IF v = "pg" THEN [before EXCEPT !.seq = work.seq] ELSE before

(***************************************************************************)
(* The handlers: the store they leave and the response they send.          *)
(***************************************************************************)
Response(db, code, body) == [db |-> db, code |-> code, body |-> body]

\* faulty variant of Rejected: tests the name for presence, not for emptiness
RejectedOnlyWhenMissing(body) ==
  \/ ~Has(body, "name")
  \/ ~Has(body, "items") \/ Len(body.items) = 0
  \/ ~Truthy(Field(body, "payment"))

\* if (!name || !items?.length || !payment)
Rejected(body) ==
  \/ ~Truthy(Field(body, "name"))
  \/ ~Has(body, "items") \/ Len(body.items) = 0
  \/ ~Truthy(Field(body, "payment"))

\* faulty variant of OrderTotal: never recomputes the total
OrderTotalKeepsExisting(body, existing) == existing.total

\* const total = items ? items.reduce(...) : existing.total
OrderTotal(body, existing) ==
  IF Has(body, "items") THEN SumSubtotals(body.items) ELSE existing.total

\* faulty variant of NewStatus: a missing status counts as paid
NewStatusDefaultsPaid(body, existing) ==
  IF Truthy(Field(body, "status")) THEN body.status ELSE "paid"

\* const newStatus = status || existing.status
NewStatus(body, existing) ==
  IF Truthy(Field(body, "status")) THEN body.status ELSE existing.status

\* faulty variant of Archives: does not look at the status the order had
ArchivesFromAnyStatus(newStatus, existingStatus) ==
  newStatus = "paid" \/ newStatus = "cancelled"

\* the archival rule: a terminal new status on an order that was pending
Archives(newStatus, existingStatus) ==
  (newStatus = "paid" \/ newStatus = "cancelled") /\ existingStatus = "pending"

\* POST /api/orders
createOrder(v, db, body, fault) ==
  IF Rejected(body)
  THEN Response(db, 400, [error |-> "name, items and payment are required"])
  ELSE
    LET total == SumSubtotals(body.items)
        date == IF Truthy(Field(body, "order_date")) THEN body.order_date ELSE Today
        phone == IF Truthy(Field(body, "phone")) THEN body.phone ELSE ""
        w1 == InsertOrder(db, body.name, phone, total, body.payment, date)
        orderId == w1.seq
        w2 == InsertItems(w1, orderId, body.items, fault = "insert_item")
    IN  IF fault = "insert_order"
          THEN Response(Rollback(v, db, db), 500, [error |-> "insert_order"])
        ELSE IF ~w2.ok THEN Response(Rollback(v, db, w2.db), 500, [error |-> "insert_item"])
        ELSE Response(w2.db, 201, getOrderWithItems(w2.db, orderId))

\* PUT /api/orders/:id, from the UPDATE on: existing is the row the handler selected
updateFrom(v, db, id, body, fault, existing) ==
    LET total == OrderTotal(body, existing)
        w1 == UpdateOrderRow(db, id, body, total)
        w2 == IF Has(body, "items") THEN DeleteItems(w1, id) ELSE w1
        w3 == IF Has(body, "items")
              THEN InsertItems(w2, id, body.items, fault = "insert_item")
              ELSE [db |-> w2, ok |-> TRUE]
        \* sqlite reads on the connection of the transaction; pg reads through
        \* the pool, on another connection, which sees the committed rows
        updated == getOrderWithItems(IF v = "pg" THEN db ELSE w3.db, id)
        newStatus == NewStatus(body, existing)
        archive == Archives(newStatus, existing.status)
        w4 == IF archive THEN InsertHistory(w3.db, updated, newStatus) ELSE w3.db
    IN  IF fault = "update" THEN Response(Rollback(v, db, db), 500, [error |-> "update"])
        ELSE IF fault = "delete" /\ Has(body, "items")
          THEN Response(Rollback(v, db, w1), 500, [error |-> "delete"])
        ELSE IF ~w3.ok THEN Response(Rollback(v, db, w3.db), 500, [error |-> "insert_item"])
        ELSE IF fault = "history" /\ archive
          THEN Response(Rollback(v, db, w3.db), 500, [error |-> "history"])
        ELSE Response(w4, 200, updated)

\* PUT /api/orders/:id
updateOrder(v, db, id, body, fault) ==
  IF id \notin DOMAIN db.orders
  THEN Response(Rollback(v, db, db), 404, [error |-> "Order not found"])
  ELSE updateFrom(v, db, id, body, fault, db.orders[id])

\* faulty variant of deleteOrder: does not look at the number of deleted rows
deleteOrderIgnoringChanges(db, id) ==
  Response(DeleteOrderRow(db, id), 200, [success |-> TRUE])

\* DELETE /api/orders/:id
deleteOrder(db, id) ==
  IF id \notin DOMAIN db.orders
  THEN Response(db, 404, [error |-> "Order not found"])
  ELSE Response(DeleteOrderRow(db, id), 200, [success |-> TRUE])

\* GET /api/orders/:id
getOrder(db, id) ==
  IF id \notin DOMAIN db.orders
  THEN Response(db, 404, [error |-> "Order not found"])
  ELSE Response(db, 200, getOrderWithItems(db, id))

\* the statement named by the fault is one the request executes
FaultApplies(db, op, id, body, fault) ==
  \/ fault = "none"
  \/ /\ op = "create"
     /\ createOrder("sqlite", db, body, "none").code # 400
     /\ fault \in {"insert_order", "insert_item"}
  \/ /\ op = "update"
     /\ id \in DOMAIN db.orders
     /\ \/ fault = "update"
        \/ fault = "delete" /\ Has(body, "items")
        \/ fault = "insert_item" /\ Has(body, "items") /\ Len(body.items) > 0
                                 /\ ItemAccepted(body.items[1])
        \/ /\ fault = "history"
           /\ updateOrder("sqlite", db, id, body, "none").code = 200
           /\ Len(updateOrder("sqlite", db, id, body, "none").db.history) > Len(db.history)

(***************************************************************************)
(* Aggregation: the figures of GET /api/stats.  Amounts are numbers in     *)
(* both variants; the text form pg gives to COUNT and SUM is not modelled. *)
(***************************************************************************)
\* SELECT * FROM orders, in id order: the ids up to n
RECURSIVE ScanOrders(_, _)
ScanOrders(db, n) ==
  IF n = 0 THEN <<>>
  ELSE ScanOrders(db, n - 1)
         \o (IF n \in DOMAIN db.orders THEN <<[id |-> n] @@ db.orders[n]>> ELSE <<>>)

SelectOrders(db) == ScanOrders(db, db.seq)

\* SUM(col) over rows, COALESCEd to 0
RECURSIVE SumOf(_, _)
SumOf(rows, col) ==
  IF rows = <<>> THEN 0 ELSE rows[1][col] + SumOf(Tail(rows), col)

\* SELECT key, SUM(col) ... GROUP BY key
GroupSum(rows, key, col) ==
  [k \in {rows[i][key] : i \in DOMAIN rows} |->
     SumOf(SelectSeq(rows, LAMBDA r : r[key] = k), col)]

\* SELECT COUNT(*) FROM orders WHERE status = ?
CountStatus(db, status) == Len(SelectSeq(SelectOrders(db), LAMBDA o : o.status = status))

\* faulty variant of revenue: counts every order that is not cancelled
revenueOfOpenOrders(db) ==
  SumOf(SelectSeq(SelectOrders(db), LAMBDA o : o.status # "cancelled"), "total")

\* SELECT COALESCE(SUM(total),0) FROM orders WHERE status='paid'
revenue(db) ==
  SumOf(SelectSeq(SelectOrders(db), LAMBDA o : o.status = "paid"), "total")

\* faulty variant of itemTotals: the items of cancelled orders count too
itemTotalsOfEveryOrder(db) ==
  GroupSum(SelectSeq(db.order_items, LAMBDA oi : oi.order_id \in DOMAIN db.orders),
           "type", "qty")

\* SELECT oi.type, SUM(oi.qty) FROM order_items oi JOIN orders o ON o.id = oi.order_id
\* WHERE o.status != 'cancelled' GROUP BY oi.type
itemTotals(db) ==
  GroupSum(SelectSeq(db.order_items,
                     LAMBDA oi : /\ oi.order_id \in DOMAIN db.orders
                                 /\ db.orders[oi.order_id].status # "cancelled"),
           "type", "qty")

\* faulty variant of payTotals: groups every order that is not cancelled
payTotalsOfOpenOrders(db) ==
  GroupSum(SelectSeq(SelectOrders(db), LAMBDA o : o.status # "cancelled"), "payment", "total")

\* SELECT payment, COALESCE(SUM(total),0) FROM orders WHERE status='paid' GROUP BY payment
payTotals(db) ==
  GroupSum(SelectSeq(SelectOrders(db), LAMBDA o : o.status = "paid"), "payment", "total")

\* GET /api/stats
stats(db) ==
  Response(db, 200,
    [totalOrders |-> Len(SelectOrders(db)),
     paid |-> CountStatus(db, "paid"),
     pending |-> CountStatus(db, "pending"),
     cancelled |-> CountStatus(db, "cancelled"),
     revenue |-> revenue(db),
     itemTotals |-> itemTotals(db),
     payTotals |-> payTotals(db)])

(***************************************************************************)
(* The weekly digest: the text is the sequence of its lines, each with the *)
(* figure it prints; the number formats and the wording are not modelled.  *)
(***************************************************************************)
\* a line of the digest that prints the figure n
Line(kind, n) == [line |-> kind, n |-> n]

\* the null entries of the line array
NullLine == Line("null", 0)

\* null, the summary of a date without orders; no text has zero lines
NoSummary == <<>>

\* faulty variant of SummaryOrders: the cancelled orders of the date are selected too
SummaryOrdersWithCancelled(db, today) ==
  SelectSeq(SelectOrders(db), LAMBDA o : o.order_date = today)

\* SELECT * FROM orders WHERE order_date = ? AND status != 'cancelled'
SummaryOrders(db, today) ==
  SelectSeq(SelectOrders(db), LAMBDA o : o.order_date = today /\ o.status # "cancelled")

\* faulty variant of SummaryItems: the items of every date are summed
SummaryItemsOfEveryDate(db, today) ==
  GroupSum(SelectSeq(db.order_items,
                     LAMBDA oi : /\ oi.order_id \in DOMAIN db.orders
                                 /\ db.orders[oi.order_id].status # "cancelled"),
           "type", "qty")

\* SELECT oi.type, SUM(oi.qty) FROM order_items oi JOIN orders o ON o.id = oi.order_id
\* WHERE o.order_date = ? AND o.status != 'cancelled' GROUP BY oi.type
SummaryItems(db, today) ==
  GroupSum(SelectSeq(db.order_items,
                     LAMBDA oi : /\ oi.order_id \in DOMAIN db.orders
                                 /\ db.orders[oi.order_id].order_date = today
                                 /\ db.orders[oi.order_id].status # "cancelled"),
           "type", "qty")

\* items.filter(i => i.type === 'meat' || i.type === 'ribs').reduce((s, i) => s + i.qty, 0)
RECURSIVE SumTypes(_, _)
SumTypes(items, types) ==
  IF types = {} THEN 0
  ELSE LET t == CHOOSE x \in types : TRUE
       IN  (IF t \in DOMAIN items THEN items[t] ELSE 0) + SumTypes(items, types \ {t})

\* faulty variant of SummaryText: the lines are printed whatever their figures
SummaryTextUnfiltered(today, norders, npaid, npending, dayRevenue, meatQty, chickenQty) ==
  <<Line("header", 0), [line |-> "date", date |-> today], Line("blank", 0),
    Line("orders", 0), Line("total", norders), Line("paid", npaid),
    Line("pending", npending), Line("blank", 0), Line("products", 0),
    Line("meat", meatQty), Line("chicken", chickenQty), Line("blank", 0),
    Line("revenue", dayRevenue), Line("blank", 0), Line("footer", 0)>>

\* the array of lines, without its null entries
SummaryText(today, norders, npaid, npending, dayRevenue, meatQty, chickenQty) ==
  SelectSeq(
    <<Line("header", 0), [line |-> "date", date |-> today], Line("blank", 0),
      Line("orders", 0), Line("total", norders), Line("paid", npaid),
      IF npending > 0 THEN Line("pending", npending) ELSE NullLine,
      Line("blank", 0), Line("products", 0),
      IF meatQty > 0 THEN Line("meat", meatQty) ELSE NullLine,
      IF chickenQty > 0 THEN Line("chicken", chickenQty) ELSE NullLine,
      Line("blank", 0), Line("revenue", dayRevenue), Line("blank", 0),
      Line("footer", 0)>>,
    LAMBDA l : l.line # "null")

\* buildDailySummary(date)
buildDailySummary(db, date) ==
  LET today == IF Truthy(date) THEN date ELSE Today
      selected == SummaryOrders(db, today)
      paid == SelectSeq(selected, LAMBDA o : o.status = "paid")
      pending == SelectSeq(selected, LAMBDA o : o.status = "pending")
      items == SummaryItems(db, today)
      meatQty == SumTypes(items, {"meat", "ribs"})
      chickenQty == IF "chicken" \in DOMAIN items THEN items["chicken"] ELSE 0
  IN  IF Len(selected) = 0 THEN NoSummary
      ELSE SummaryText(today, Len(selected), Len(paid), Len(pending),
                       SumOf(paid, "total"), meatQty, chickenQty)

(***************************************************************************)
(* The dispatcher.  The outcome of the one HTTP call is an input.          *)
(***************************************************************************)
\* process.env: each of the two settings is there or not
Envs ==
  {[WHATSAPP_PHONE |-> p, CALLMEBOT_APIKEY |-> k] : p \in {NULL, "5511"}, k \in {NULL, "key"}}

\* the environment without the two settings
NoEnv == [WHATSAPP_PHONE |-> NULL, CALLMEBOT_APIKEY |-> NULL]

\* what the HTTP call does: res.ok is true, res.ok is false, or the call throws
Transport == {"ok", "not_ok", "throws"}

\* no HTTP call was made
NoFetch == [called |-> FALSE]

\* faulty variant of sendWhatsApp: the answer of the gateway is not looked at
sendWhatsAppTrusting(e, message, outcome) ==
  IF ~Truthy(e.WHATSAPP_PHONE) \/ ~Truthy(e.CALLMEBOT_APIKEY)
  THEN [ok |-> FALSE, fetch |-> NoFetch]
  ELSE [ok |-> outcome # "throws",
        fetch |-> [called |-> TRUE, text |-> message, outcome |-> outcome]]

\* sendWhatsApp(message)
sendWhatsApp(e, message, outcome) ==
  IF ~Truthy(e.WHATSAPP_PHONE) \/ ~Truthy(e.CALLMEBOT_APIKEY)
  THEN [ok |-> FALSE, fetch |-> NoFetch]
  ELSE [ok |-> outcome = "ok",
        fetch |-> [called |-> TRUE, text |-> message, outcome |-> outcome]]

\* what a digest handler leaves: the response, the HTTP call and whether it answered
Dispatched(code, body, fetched) == [code |-> code, body |-> body, fetch |-> fetched]

\* POST /api/whatsapp/send-summary
sendSummary(e, db, body, outcome) ==
  LET msg == buildDailySummary(db, Field(body, "date"))
      sent == sendWhatsApp(e, msg, outcome)
  IN  IF msg = NoSummary
      THEN Dispatched(200, [success |-> FALSE, message |-> "Nenhum pedido encontrado para essa data."],
                      NoFetch)
      ELSE Dispatched(200, [success |-> sent.ok, preview |-> msg], sent.fetch)

\* GET /api/whatsapp/preview
preview(db, query) ==
  LET date == IF Truthy(Field(query, "date")) THEN query.date ELSE Today
      msg == buildDailySummary(db, date)
  IN  Dispatched(200, [date |-> date,
                       preview |-> IF msg = NoSummary THEN <<Line("none", 0)>> ELSE msg],
                 NoFetch)

\* faulty variant of cronJob: the summary is sent whether there is one or not
cronJobAlwaysSends(e, db, outcome) ==
  Dispatched(0, EmptyBody, sendWhatsApp(e, buildDailySummary(db, Today), outcome).fetch)

\* the scheduled job of Sunday 20:00: no response
cronJob(e, db, outcome) ==
  LET msg == buildDailySummary(db, Today)
  IN  Dispatched(0, EmptyBody, IF msg = NoSummary THEN NoFetch ELSE sendWhatsApp(e, msg, outcome).fetch)

\* the outcome names the HTTP call the handler makes, if it makes one
TransportApplies(e, db, date, outcome) ==
  (outcome # "none") <=> sendWhatsApp(e, buildDailySummary(db, date), "ok").fetch.called
                           /\ buildDailySummary(db, date) # NoSummary

(***************************************************************************)
(* Actions: one per request.                                               *)
(***************************************************************************)
Handled(op, id, body, fault, r) ==
  /\ orders' = r.db.orders
  /\ order_items' = r.db.order_items
  /\ history' = r.db.history
  /\ orders_id_seq' = r.db.seq
  /\ req' = [op |-> op, id |-> id, body |-> body, fault |-> fault]
  /\ res' = [code |-> r.code, body |-> r.body]
  /\ fetch' = NoFetch
  /\ nops' = nops + 1
  /\ UNCHANGED <<variant, env, txns, statsq>>

\* the tables are empty and nothing was handled
Started ==
  /\ variant \in Variants
  /\ orders = <<>>
  /\ order_items = <<>>
  /\ history = <<>>
  /\ orders_id_seq = 0
  /\ req = [op |-> "none", id |-> 0, body |-> EmptyBody, fault |-> "none"]
  /\ res = [code |-> 0, body |-> EmptyBody]
  /\ fetch = NoFetch
  /\ nops = 0
  /\ txns = [c \in Clients |-> Idle]
  /\ statsq = NoStats

\* the server as it starts without the two settings of the dispatcher
Init == Started /\ env = NoEnv

\* a POST with one of the bodies, among the first limit requests
Create(bodies, faults, limit) ==
  \E body \in bodies, fault \in faults :
    /\ nops < limit
    /\ orders_id_seq < MaxOrders
    /\ FaultApplies(Db, "create", 0, body, fault)
    /\ Handled("create", 0, body, fault, createOrder(variant, Db, body, fault))

\* a PUT with one of the bodies, among the first limit requests
Update(bodies, faults, limit) ==
  \E id \in OrderIds, body \in bodies, fault \in faults :
    /\ nops < limit
    /\ FaultApplies(Db, "update", id, body, fault)
    /\ Handled("update", id, body, fault, updateOrder(variant, Db, id, body, fault))

\* a DELETE, among the first limit requests
Delete(limit) ==
  \E id \in OrderIds :
    /\ nops < limit
    /\ Handled("delete", id, EmptyBody, "none", deleteOrder(Db, id))

\* a GET, among the first limit requests
Get(limit) ==
  \E id \in OrderIds :
    /\ nops < limit
    /\ Handled("get", id, EmptyBody, "none", getOrder(Db, id))

CreateOrder == Create(CreateBodies, Faults, MaxOps)

UpdateOrder == Update(UpdateBodies, Faults, MaxOps)

DeleteOrder == Delete(MaxOps)

GetOrder == Get(MaxOps)

Next == CreateOrder \/ UpdateOrder \/ DeleteOrder \/ GetOrder

Spec == Init /\ [][Next]_vars

(***************************************************************************)
(* The settlement cycle: the same handlers, with valid creates and with    *)
(* updates that carry only a status, followed over more requests.          *)
(***************************************************************************)
SettleCreate == Create({b \in CreateBodies : ~Rejected(b)}, {"none"}, MaxSettleOps)

SettleUpdate == Update(StatusBodies, {"none"}, MaxSettleOps)

SettleDelete == Delete(MaxSettleOps)

SettleNext == SettleCreate \/ SettleUpdate \/ SettleDelete

SpecSettle == Init /\ [][SettleNext]_vars

(***************************************************************************)
(* Updates whose status is any text: the handler takes the field of the    *)
(* body as it comes.                                                       *)
(***************************************************************************)
\* PUT bodies that carry a status and nothing else, a status of the three or another text
AnyStatusBodies ==
  WithField({EmptyBody}, "status", {"pending", "paid", "cancelled", "shipped"}) \ {EmptyBody}

AnyStatusCreate == Create({b \in CreateBodies : ~Rejected(b)}, {"none"}, MaxOps)

AnyStatusUpdate == Update(AnyStatusBodies, {"none"}, MaxOps)

AnyStatusNext == AnyStatusCreate \/ AnyStatusUpdate

SpecAnyStatus == Init /\ [][AnyStatusNext]_vars

(***************************************************************************)
(* The reporting endpoints over orders of several dates, payments and      *)
(* item types.                                                             *)
(***************************************************************************)
\* a reporting request or the scheduled job: the tables stay as they are
Answered(op, body, outcome, r) ==
  /\ req' = [op |-> op, id |-> 0, body |-> body, fault |-> "none", transport |-> outcome]
  /\ res' = [code |-> r.code, body |-> r.body]
  /\ fetch' = r.fetch
  /\ nops' = nops + 1
  /\ UNCHANGED <<variant, env, orders, order_items, history, orders_id_seq, txns, statsq>>

\* the query strings and bodies of the digest endpoints: no date or a date
DateBodies(dates) == WithField({EmptyBody}, "date", dates)

\* a GET /api/stats, among the first limit requests
Stats(limit) ==
  /\ nops < limit
  /\ Answered("stats", EmptyBody, "none",
              Dispatched(stats(Db).code, stats(Db).body, NoFetch))

\* a GET /api/whatsapp/preview, among the first limit requests
Preview(dates, limit) ==
  \E query \in DateBodies(dates) :
    /\ nops < limit
    /\ Answered("preview", query, "none", preview(Db, query))

\* a POST /api/whatsapp/send-summary, among the first limit requests
SendSummary(dates, limit) ==
  \E body \in DateBodies(dates), outcome \in Transport \cup {"none"} :
    /\ nops < limit
    /\ TransportApplies(env, Db, Field(body, "date"), outcome)
    /\ Answered("send", body, outcome, sendSummary(env, Db, body, outcome))

\* the scheduled job runs, among the first limit requests
Cron(limit) ==
  \E outcome \in Transport \cup {"none"} :
    /\ nops < limit
    /\ TransportApplies(env, Db, Today, outcome)
    /\ Answered("cron", EmptyBody, outcome, cronJob(env, Db, outcome))

\* POST bodies of three orders: two of the same date with different payments
\* and items, one of today
ReportCreates ==
  {CreateReference, Without(CreateReference, "order_date"),
   [CreateReference EXCEPT !.items = <<Meat, Ribs>>, !.payment = "cash"]}

\* PUT bodies: a status, a date, or items without meat
ReportUpdates ==
  StatusBodies
    \cup (WithField({EmptyBody}, "order_date", {"D3"}) \ {EmptyBody})
    \cup (WithField({EmptyBody}, "items", {<<>>, <<Chicken>>}) \ {EmptyBody})

ReportCreate == Create(ReportCreates, {"none"}, MaxReportOps)

ReportUpdate == Update(ReportUpdates, {"none"}, MaxReportOps)

ReportDelete == Delete(MaxReportOps)

ReportStats == Stats(MaxReportOps)

ReportPreview == Preview({"D2", "D3"}, MaxReportOps)

ReportNext ==
  ReportCreate \/ ReportUpdate \/ ReportDelete \/ ReportStats \/ ReportPreview

SpecReport == Init /\ [][ReportNext]_vars

(***************************************************************************)
(* The digest and its dispatcher under every environment.                  *)
(***************************************************************************)
InitDispatch == Started /\ env \in Envs

DispatchCreate ==
  Create({CreateReference, Without(CreateReference, "order_date")}, {"none"}, MaxDispatchOps)

DispatchUpdate ==
  Update(WithField({EmptyBody}, "status", {"paid", "cancelled"}) \ {EmptyBody}, {"none"},
         MaxDispatchOps)

DispatchPreview == Preview({"D2"}, MaxDispatchOps)

DispatchSend == SendSummary({"D2"}, MaxDispatchOps)

DispatchCron == Cron(MaxDispatchOps)

DispatchNext ==
  DispatchCreate \/ DispatchUpdate \/ DispatchPreview \/ DispatchSend \/ DispatchCron

SpecDispatch == InitDispatch /\ [][DispatchNext]_vars

(***************************************************************************)
(* Requests that overlap.  The handlers of the sqlite server make no       *)
(* await, so each runs to its response before the next starts.  The pg     *)
(* handlers await every query: an update is BEGIN and the SELECT of the    *)
(* row, then the UPDATE, which waits for the row lock, then the remaining  *)
(* statements up to COMMIT, which no other connection sees before the      *)
(* commit; the stats handler is seven queries through the pool.            *)
(* PostgreSQL runs the statements under READ COMMITTED.                    *)
(***************************************************************************)
\* faulty variant of Synchronous: the handlers of every variant await their queries
SynchronousNever(v) == FALSE

\* the handlers of the variant run without interleaving
Synchronous(v) == v = "sqlite"

\* PUT bodies of overlapping updates: a terminal status, or items
ConcurrentBodies ==
  (WithField({EmptyBody}, "status", {"paid", "cancelled"}) \ {EmptyBody})
    \cup (WithField({EmptyBody}, "items", {<<Chicken>>}) \ {EmptyBody})

\* the fields of the stats response, in the order of their queries
StatsFields ==
  <<"totalOrders", "paid", "pending", "cancelled", "revenue", "itemTotals", "payTotals">>

\* another client holds the lock of the orders row id
RowLocked(c, id) ==
  \E d \in Clients \ {c} : txns[d].pc = "locked" /\ txns[d].id = id

\* a POST, one transaction that touches no stored row
ConcurrentCreate ==
  /\ Create({CreateReference}, {"none"}, MaxConcurrentOps)

\* sqlite: a PUT runs to its response
SyncUpdate ==
  /\ Synchronous(variant)
  /\ Update(ConcurrentBodies, {"none"}, MaxConcurrentOps)

\* sqlite: a GET /api/stats runs to its response
SyncStats ==
  /\ Synchronous(variant)
  /\ Stats(MaxConcurrentOps)

\* pg: a PUT arrives at an idle client: BEGIN, SELECT * FROM orders WHERE id = $1
PgBegin ==
  \E c \in Clients, id \in OrderIds, body \in ConcurrentBodies :
    /\ ~Synchronous(variant)
    /\ nops < MaxConcurrentOps
    /\ txns[c] = Idle
    /\ IF id \in DOMAIN orders
       THEN /\ txns' = [txns EXCEPT ![c] = [pc |-> "selected", id |-> id, body |-> body,
                                            existing |-> orders[id]]]
            /\ UNCHANGED <<req, res>>
       ELSE /\ req' = [op |-> "update", id |-> id, body |-> body, fault |-> "none"]
            /\ res' = [code |-> 404, body |-> [error |-> "Not found"]]
            /\ UNCHANGED txns
    /\ nops' = nops + 1
    /\ UNCHANGED <<variant, env, orders, order_items, history, orders_id_seq, fetch, statsq>>

\* pg: the UPDATE of the row, once no other transaction holds its lock
PgUpdate ==
  \E c \in Clients :
    /\ txns[c].pc = "selected"
    /\ ~RowLocked(c, txns[c].id)
    /\ txns' = [txns EXCEPT ![c].pc = "locked"]
    /\ UNCHANGED <<variant, env, orders, order_items, history, orders_id_seq, req, res,
                   fetch, nops, statsq>>

\* pg: the statements after the UPDATE, the COMMIT and the response; the
\* UPDATE has set the columns over the row as it was committed
PgCommit ==
  \E c \in Clients :
    /\ txns[c].pc = "locked"
    /\ LET t == txns[c]
           r == updateFrom(variant, Db, t.id, t.body, "none", t.existing)
       IN  /\ orders' = r.db.orders
           /\ order_items' = r.db.order_items
           /\ history' = r.db.history
           /\ orders_id_seq' = r.db.seq
           /\ req' = [op |-> "update", id |-> t.id, body |-> t.body, fault |-> "none"]
           /\ res' = [code |-> r.code, body |-> r.body]
    /\ txns' = [txns EXCEPT ![c] = Idle]
    /\ fetch' = NoFetch
    /\ UNCHANGED <<variant, env, nops, statsq>>

\* pg: the next query of GET /api/stats, the first when the request arrives;
\* the seventh is followed by the response
PgStatsQuery ==
  /\ ~Synchronous(variant)
  /\ statsq.pc > 0 \/ nops < MaxConcurrentOps
  /\ LET k == statsq.pc + 1
         sofar == IF statsq.pc = 0 THEN EmptyBody ELSE statsq.bundle
         bundle == sofar @@ (StatsFields[k] :> stats(Db).body[StatsFields[k]])
     IN  IF k < Len(StatsFields)
         THEN /\ statsq' = [pc |-> k, bundle |-> bundle]
              /\ UNCHANGED <<req, res, fetch>>
         ELSE /\ statsq' = NoStats
              /\ req' = [op |-> "stats", id |-> 0, body |-> EmptyBody, fault |-> "none",
                         transport |-> "none"]
              /\ res' = [code |-> 200, body |-> bundle]
              /\ fetch' = NoFetch
  /\ nops' = IF statsq.pc = 0 THEN nops + 1 ELSE nops
  /\ UNCHANGED <<variant, env, orders, order_items, history, orders_id_seq, txns>>

ConcurrentNext ==
  ConcurrentCreate \/ SyncUpdate \/ SyncStats \/ PgBegin \/ PgUpdate \/ PgCommit \/ PgStatsQuery

SpecConcurrent == Init /\ [][ConcurrentNext]_vars

(***************************************************************************)
(* Properties.                                                             *)
(***************************************************************************)
\* the history rows that reference order id
HistoryOf(id) == SelectSeq(history, LAMBDA h : h.order_id = id)

\* the line items stored for order id, as the client supplies them
StoredItems(rows, id) ==
  LET mine == SelectSeq(rows, LAMBDA r : r.order_id = id)
  IN  [k \in 1..Len(mine) |->
         [type |-> mine[k].type, qty |-> mine[k].qty, price |-> mine[k].price,
          subtotal |-> mine[k].subtotal]]

\* the step handled an update of a stored order
UpdateStep == req'.op = "update" /\ req'.id \in DOMAIN orders

\* the step left the three tables alone
TablesUnchanged ==
  orders' = orders /\ order_items' = order_items /\ history' = history

\* C1: the history archive holds at most one record per order id, and exactly
\* one for every order that has left pending
C1_OneRecordPerOrder ==
  \A id \in OrderIds :
    /\ Len(HistoryOf(id)) <= 1
    /\ (id \in DOMAIN orders /\ orders[id].status # "pending") => Len(HistoryOf(id)) = 1

\* C2: an update that takes a pending order to paid or cancelled appends
\* exactly one history record, equal to the order as it stands after the update
C2_SnapshotIsPostUpdate ==
  [][(/\ UpdateStep
      /\ res'.code = 200
      /\ orders[req'.id].status = "pending"
      /\ Has(req'.body, "status")
      /\ req'.body.status \in {"paid", "cancelled"})
     => /\ Len(history') = Len(history) + 1
        /\ SubSeq(history', 1, Len(history)) = history
        /\ LET h == history'[Len(history')]
               o == orders'[req'.id]
           IN  /\ h.order_id = req'.id
               /\ h.name = o.name
               /\ h.phone = o.phone
               /\ h.total = o.total
               /\ h.payment = o.payment
               /\ h.status = o.status
               /\ h.order_date = o.order_date
               /\ h.items_json = SelectSeq(order_items', LAMBDA r : r.order_id = req'.id)]_vars

\* C3: an update of an order that is not pending leaves the history archive unchanged
C3_TerminalNeverArchives ==
  [][(UpdateStep /\ orders[req'.id].status # "pending") => history' = history]_vars

\* C3 witness: an order archived as paid was then set to cancelled, and it
\* still has its one record
C3_Witness ==
  /\ req.op = "update" /\ res.code = 200
  /\ req.id \in DOMAIN orders
  /\ orders[req.id].status = "cancelled"
  /\ Len(HistoryOf(req.id)) = 1
  /\ HistoryOf(req.id)[1].status = "paid"

\* C4: an update that does not supply a status creates no history record and
\* leaves the status of the order as it was
C4_NoStatusNoArchive ==
  [][(req'.op = "update" /\ ~Has(req'.body, "status"))
     => /\ history' = history
        /\ req'.id \in DOMAIN orders =>
             /\ req'.id \in DOMAIN orders'
             /\ orders'[req'.id].status = orders[req'.id].status]_vars

\* C4 witness: the items of a pending order were replaced by an update without status
C4_Witness ==
  /\ req.op = "update" /\ res.code = 200
  /\ ~Has(req.body, "status") /\ Has(req.body, "items")
  /\ orders[req.id].status = "pending"
  /\ history = <<>>

\* C5: the total of every stored order is the sum of the subtotals of its
\* stored line items
C5_TotalIsSumOfSubtotals ==
  \A id \in DOMAIN orders :
    orders[id].total = SumSubtotals(SelectSeq(order_items, LAMBDA r : r.order_id = id))

\* C5 witness: an update replaced the two items of an order by one, and another
\* order keeps its two
C5_Witness ==
  /\ req.op = "update" /\ res.code = 200
  /\ Has(req.body, "items") /\ Len(req.body.items) = 1
  /\ orders[req.id].total = Chicken.subtotal
  /\ \E other \in DOMAIN orders : other # req.id /\ orders[other].total = Meat.subtotal + Chicken.subtotal

\* C6: a create or an update that fails after it started leaves the orders,
\* the line items and the history archive as they were
C6_FailureLeavesNothing ==
  [][(req'.op \in {"create", "update"} /\ res'.code = 500) => TablesUnchanged]_vars

\* C6 witness: an update failed at its second line item, after the row was
\* updated, the old items were deleted and one item was inserted
C6_Witness ==
  /\ req.op = "update" /\ res.code = 500
  /\ Has(req.body, "items") /\ Len(req.body.items) = 2
  /\ ~ItemAccepted(req.body.items[2])
  /\ Has(req.body, "status")
  /\ orders[req.id].status = "pending"

\* C7: update, delete and get of an id that is not stored answer 404, which no
\* other outcome uses, and leave the tables as they were
C7_NotFound ==
  [][req'.op \in {"update", "delete", "get"}
     => /\ (req'.id \notin DOMAIN orders) <=> (res'.code = 404)
        /\ (req'.id \notin DOMAIN orders) => TablesUnchanged]_vars

\* C7 witness: a delete of an id that is not stored, beside a stored order with items
C7_Witness ==
  /\ req.op = "delete" /\ res.code = 404
  /\ req.id \notin DOMAIN orders
  /\ orders # <<>> /\ order_items # <<>>

\* C8: a create without a name, without items or without a payment (or with
\* an empty one) answers 400, writes nothing and draws no id
C8_ValidationBeforeWrite ==
  [][(/\ req'.op = "create"
      /\ \/ ~Has(req'.body, "name") \/ req'.body.name = ""
         \/ ~Has(req'.body, "items") \/ req'.body.items = <<>>
         \/ ~Has(req'.body, "payment") \/ req'.body.payment = "")
     => /\ res'.code = 400
        /\ TablesUnchanged
        /\ orders_id_seq' = orders_id_seq]_vars

\* C8 witness: a create with an empty name was rejected, beside a stored order
C8_Witness ==
  /\ req.op = "create" /\ res.code = 400
  /\ Has(req.body, "name") /\ req.body.name = ""
  /\ orders # <<>>

\* C9: a successful create adds one pending order under a fresh id, dated as
\* supplied or today, with the supplied items, and changes nothing else
C9_CreateAddsOneOrder ==
  [][(req'.op = "create" /\ res'.code = 201)
     => LET id == res'.body.id
        IN  /\ id \notin DOMAIN orders
            /\ id > orders_id_seq
            /\ \A k \in 1..Len(history) : history[k].order_id # id
            /\ \A k \in 1..Len(order_items) : order_items[k].order_id # id
            /\ DOMAIN orders' = DOMAIN orders \cup {id}
            /\ \A i \in DOMAIN orders : orders'[i] = orders[i]
            /\ orders'[id].status = "pending"
            /\ orders'[id].name = req'.body.name
            /\ orders'[id].payment = req'.body.payment
            /\ orders'[id].order_date # NULL /\ orders'[id].order_date # ""
            /\ orders'[id].order_date =
                 IF Has(req'.body, "order_date") THEN req'.body.order_date ELSE Today
            /\ StoredItems(order_items', id) = req'.body.items
            /\ SelectSeq(order_items', LAMBDA r : r.order_id # id) = order_items
            /\ history' = history]_vars

\* C9 witness: a second order was created without a date while the first is stored
C9_Witness ==
  /\ req.op = "create" /\ res.code = 201
  /\ ~Has(req.body, "order_date")
  /\ res.body.id = 2
  /\ DOMAIN orders = {1, 2}
  /\ orders[2].order_date = Today

\* C10: a delete of a stored order removes the order and its line items,
\* answers success, and leaves the history archive and the other orders alone
C10_DeleteFrame ==
  [][(req'.op = "delete" /\ req'.id \in DOMAIN orders)
     => /\ res'.code = 200 /\ res'.body = [success |-> TRUE]
        /\ DOMAIN orders' = DOMAIN orders \ {req'.id}
        /\ \A i \in DOMAIN orders' : orders'[i] = orders[i]
        /\ order_items' = SelectSeq(order_items, LAMBDA r : r.order_id # req'.id)
        /\ history' = history]_vars

\* C10 witness: an archived order was deleted with its items, and its record
\* is still there
C10_Witness ==
  /\ req.op = "delete" /\ res.code = 200
  /\ req.id \notin DOMAIN orders
  /\ order_items = <<>>
  /\ Len(HistoryOf(req.id)) = 1
  /\ Len(HistoryOf(req.id)[1].items_json) = 2

\* C11: a history record, once written, stays where it is with the content it
\* was written with, whatever request is handled afterwards
C11_HistoryAppendOnly ==
  [][/\ Len(history') >= Len(history)
     /\ SubSeq(history', 1, Len(history)) = history]_vars

\* C11 witness: the items of an archived order were replaced afterwards, and
\* its record still lists the two items it was archived with
C11_Witness ==
  /\ req.op = "update" /\ res.code = 200
  /\ Has(req.body, "items") /\ Len(req.body.items) = 1
  /\ Len(SelectSeq(order_items, LAMBDA r : r.order_id = req.id)) = 1
  /\ Len(HistoryOf(req.id)) = 1
  /\ Len(HistoryOf(req.id)[1].items_json) = 2
  /\ HistoryOf(req.id)[1].total = Meat.subtotal + Chicken.subtotal

\* the sum of f over the set S
RECURSIVE SumOver(_, _)
SumOver(S, f) ==
  IF S = {} THEN 0
  ELSE LET x == CHOOSE y \in S : TRUE IN f[x] + SumOver(S \ {x}, f)

\* the stored orders with the status, and those that are not cancelled
PaidIds == {id \in DOMAIN orders : orders[id].status = "paid"}

OpenIds == {id \in DOMAIN orders : orders[id].status # "cancelled"}

\* the quantity of the item type over the line items of the orders ids
QtyOf(ids, type) ==
  LET rows == {k \in DOMAIN order_items :
                 order_items[k].order_id \in ids /\ order_items[k].type = type}
  IN  SumOver(rows, [k \in rows |-> order_items[k].qty])

\* the value of the group, zero when the result has no such group
Group(groups, k) == IF k \in DOMAIN groups THEN groups[k] ELSE 0

ItemTypes == {"meat", "ribs", "chicken"}

\* C12: in every state the revenue is the sum of the totals of the paid orders
\* and of no other, and the item totals sum, per type, the quantities of the
\* line items of the orders that are not cancelled, pending ones included;
\* the stats response carries these figures
C12_RevenueAndItemTotals ==
  /\ revenue(Db) = SumOver(PaidIds, [id \in PaidIds |-> orders[id].total])
  /\ DOMAIN itemTotals(Db) = {t \in ItemTypes : QtyOf(OpenIds, t) > 0}
  /\ \A t \in ItemTypes : Group(itemTotals(Db), t) = QtyOf(OpenIds, t)
  /\ req.op = "stats" =>
       /\ res.body.revenue = revenue(Db)
       /\ res.body.itemTotals = itemTotals(Db)

\* C12 witness: stats answered over a paid and a pending order; the revenue is
\* the total of the paid one, the meat of both is counted
C12_Witness ==
  /\ req.op = "stats"
  /\ \E p \in PaidIds, q \in DOMAIN orders :
       /\ orders[q].status = "pending"
       /\ orders[q].total > 0
       /\ res.body.revenue = orders[p].total
       /\ res.body.itemTotals["meat"] = 2 * Meat.qty

\* C13: the payment totals have one group per payment method of a paid order,
\* each the sum of the totals of the paid orders of that method, and together
\* they add up to the revenue
C13_PaymentTotals ==
  LET groups == payTotals(Db)
  IN  /\ DOMAIN groups = {orders[id].payment : id \in PaidIds}
      /\ \A p \in DOMAIN groups :
           LET ids == {id \in PaidIds : orders[id].payment = p}
           IN  groups[p] = SumOver(ids, [id \in ids |-> orders[id].total])
      /\ SumOver(DOMAIN groups, groups) = revenue(Db)
      /\ req.op = "stats" =>
           /\ res.body.payTotals = groups
           /\ SumOver(DOMAIN res.body.payTotals, res.body.payTotals) = res.body.revenue

\* C13 witness: stats answered over a paid pix order and a pending cash order;
\* pix is the only group
C13_Witness ==
  /\ req.op = "stats"
  /\ DOMAIN res.body.payTotals = {"pix"}
  /\ res.body.payTotals["pix"] = Meat.subtotal + Chicken.subtotal
  /\ \E q \in DOMAIN orders : orders[q].status = "pending" /\ orders[q].payment = "cash"

\* the store after the step
DbAfter ==
  [orders |-> orders', order_items |-> order_items', history |-> history',
   seq |-> orders_id_seq']

\* C14: an update of a pending order that supplies the status paid and nothing
\* else raises the revenue by the total of that order, and leaves the item
\* totals and every other order as they were
C14_PaidAddsItsTotal ==
  [][(/\ UpdateStep
      /\ res'.code = 200
      /\ orders[req'.id].status = "pending"
      /\ DOMAIN req'.body = {"status"}
      /\ req'.body.status = "paid")
     => /\ revenue(DbAfter) = revenue(Db) + orders[req'.id].total
        /\ itemTotals(DbAfter) = itemTotals(Db)
        /\ \A i \in DOMAIN orders \ {req'.id} :
             i \in DOMAIN orders' /\ orders'[i] = orders[i]]_vars

\* C14 witness: one of two orders was marked paid by a status alone; the
\* revenue is its total and the other order is still pending
C14_Witness ==
  /\ req.op = "update" /\ res.code = 200
  /\ DOMAIN req.body = {"status"} /\ req.body.status = "paid"
  /\ Len(HistoryOf(req.id)) = 1
  /\ revenue(Db) = orders[req.id].total
  /\ orders[req.id].total > 0
  /\ \E q \in DOMAIN orders : q # req.id /\ orders[q].status = "pending" /\ orders[q].total > 0

\* the dates an order can carry
Dates == {"D1", "D2", "D3"}

\* the stored orders of the date that are not cancelled
SelectedIds(d) ==
  {id \in DOMAIN orders : orders[id].order_date = d /\ orders[id].status # "cancelled"}

\* the text has a line of the kind
HasLine(text, kind) == \E k \in DOMAIN text : text[k].line = kind

\* the figure the line of the kind prints, zero when the text has no such line
FigureOf(text, kind) ==
  LET ls == SelectSeq(text, LAMBDA l : l.line = kind)
  IN  IF ls = <<>> THEN 0 ELSE ls[1].n

\* the answer of the preview for a date without orders
NoOrdersPreview == <<Line("none", 0)>>

\* C15: the summary of a date is absent exactly when no stored order has that
\* date and a status other than cancelled, and otherwise counts exactly those
\* orders; no date means today
C15_SnapshotSelection ==
  /\ \A d \in Dates :
       LET text == buildDailySummary(Db, d)
       IN  /\ (text = NoSummary) <=> (SelectedIds(d) = {})
           /\ text # NoSummary => FigureOf(text, "total") = Cardinality(SelectedIds(d))
  /\ buildDailySummary(Db, NULL) = buildDailySummary(Db, Today)
  /\ req.op = "preview" =>
       (res.body.preview = NoOrdersPreview) <=> (SelectedIds(res.body.date) = {})

\* C15 witness: the preview of a date whose only order is cancelled answers
\* that there are no orders, while an order of another date is open
C15_Witness ==
  /\ req.op = "preview"
  /\ res.body.preview = NoOrdersPreview
  /\ \E c \in DOMAIN orders :
       orders[c].order_date = res.body.date /\ orders[c].status = "cancelled"
  /\ \E o \in DOMAIN orders :
       orders[o].order_date # res.body.date /\ orders[o].status # "cancelled"

\* C16: a summary prints the number of selected paid and pending orders, the
\* sum of the totals of the selected paid orders, the quantity of meat and
\* ribs and the quantity of chicken of the selected orders; a line that is
\* left out stands for zero
C16_SnapshotFigures ==
  \A d \in Dates :
    LET text == buildDailySummary(Db, d)
        sel == SelectedIds(d)
        paid == {id \in sel : orders[id].status = "paid"}
    IN  text # NoSummary =>
          /\ FigureOf(text, "paid") = Cardinality(paid)
          /\ FigureOf(text, "pending") = Cardinality({id \in sel : orders[id].status = "pending"})
          /\ FigureOf(text, "revenue") = SumOver(paid, [id \in paid |-> orders[id].total])
          /\ FigureOf(text, "meat") = QtyOf(sel, "meat") + QtyOf(sel, "ribs")
          /\ FigureOf(text, "chicken") = QtyOf(sel, "chicken")

\* C16 witness: the preview of a date with a paid order of meat and chicken
\* and a pending order of meat and ribs
C16_Witness ==
  /\ req.op = "preview"
  /\ FigureOf(res.body.preview, "paid") = 1
  /\ FigureOf(res.body.preview, "pending") = 1
  /\ FigureOf(res.body.preview, "revenue") = Meat.subtotal + Chicken.subtotal
  /\ FigureOf(res.body.preview, "meat") = 2 * Meat.qty + Ribs.qty
  /\ FigureOf(res.body.preview, "chicken") = Chicken.qty

\* C17: a summary always has the lines of the total, of the paid orders and
\* of the revenue; it has the pending line exactly when a selected order is
\* pending, the meat line exactly when the selected orders hold meat or ribs,
\* and the chicken line exactly when they hold chicken
C17_DigestLines ==
  \A d \in Dates :
    LET text == buildDailySummary(Db, d)
        sel == SelectedIds(d)
    IN  text # NoSummary =>
          /\ HasLine(text, "total") /\ HasLine(text, "paid") /\ HasLine(text, "revenue")
          /\ HasLine(text, "pending") <=> (\E id \in sel : orders[id].status = "pending")
          /\ HasLine(text, "meat") <=> (QtyOf(sel, "meat") + QtyOf(sel, "ribs") > 0)
          /\ HasLine(text, "chicken") <=> (QtyOf(sel, "chicken") > 0)
          /\ ~HasLine(text, "null")

\* C17 witness: the preview of a paid order of chicken alone has the chicken
\* line and neither the pending nor the meat line
C17_Witness ==
  /\ req.op = "preview"
  /\ HasLine(res.body.preview, "total")
  /\ HasLine(res.body.preview, "chicken")
  /\ ~HasLine(res.body.preview, "pending")
  /\ ~HasLine(res.body.preview, "meat")
  /\ FigureOf(res.body.preview, "paid") = 1

\* both settings of the dispatcher are there
Configured == Truthy(env.WHATSAPP_PHONE) /\ Truthy(env.CALLMEBOT_APIKEY)

\* the date a digest request is about
RequestDate == IF Has(req.body, "date") THEN req.body.date ELSE Today

\* C18: a send always ends with true or false: without the recipient or the
\* credential it is false and no HTTP call is made, when the HTTP call throws
\* it is false, and it is true only when the HTTP call reports success
C18_SendCompletes ==
  /\ req.op \in {"send", "cron"} /\ ~Configured => fetch = NoFetch
  /\ req.op = "send" =>
       /\ res.code = 200
       /\ res.body.success \in BOOLEAN
       /\ ~Configured => res.body.success = FALSE
       /\ (fetch.called /\ fetch.outcome = "throws") => res.body.success = FALSE
       /\ res.body.success = TRUE => (fetch.called /\ fetch.outcome = "ok")

\* C18 witness: with both settings the HTTP call for a pending order threw,
\* and the send answered false
C18_Witness ==
  /\ req.op = "send"
  /\ Configured
  /\ fetch.called /\ fetch.outcome = "throws"
  /\ res.body.success = FALSE
  /\ \E id \in SelectedIds(RequestDate) : orders[id].status = "pending"

\* C19: the preview makes no HTTP call; the scheduled job and the send make
\* none for a date without summary, and the send then answers false; an HTTP
\* call carries the summary of the date, and a send for a date with a summary
\* answers with that summary whatever the delivery
C19_NoDispatchWithoutSnapshot ==
  /\ req.op = "preview" => fetch = NoFetch
  /\ (req.op \in {"send", "cron"} /\ SelectedIds(RequestDate) = {}) => fetch = NoFetch
  /\ (req.op = "send" /\ SelectedIds(RequestDate) = {}) =>
       /\ res.body.success = FALSE
       /\ ~Has(res.body, "preview")
  /\ (req.op \in {"send", "cron"} /\ fetch.called) =>
       /\ fetch.text # NoSummary
       /\ fetch.text = buildDailySummary(Db, RequestDate)
  /\ (req.op = "send" /\ SelectedIds(RequestDate) # {}) =>
       /\ Has(res.body, "preview")
       /\ res.body.preview = buildDailySummary(Db, RequestDate)
       /\ res.body.preview # NoSummary

\* C19 witness: with both settings, a send for a date whose only order is
\* cancelled made no HTTP call and answered false
C19_Witness ==
  /\ req.op = "send"
  /\ Configured
  /\ fetch = NoFetch
  /\ res.body.success = FALSE
  /\ \E id \in DOMAIN orders :
       orders[id].order_date = RequestDate /\ orders[id].status = "cancelled"

\* C20: a successful update keeps each of name, phone, payment, status and
\* order_date that the request does not supply; without items in the request
\* the items and the total stay, with items the stored items are exactly the
\* supplied ones; no other order and no item of another order changes
C20_UpdateFrame ==
  [][(UpdateStep /\ res'.code = 200)
     => LET id == req'.id
            body == req'.body
        IN  /\ DOMAIN orders' = DOMAIN orders
            /\ \A f \in {"name", "phone", "payment", "status", "order_date"} :
                 ~Has(body, f) => orders'[id][f] = orders[id][f]
            /\ ~Has(body, "items") =>
                 /\ SelectSeq(order_items', LAMBDA r : r.order_id = id)
                      = SelectSeq(order_items, LAMBDA r : r.order_id = id)
                 /\ orders'[id].total = orders[id].total
            /\ Has(body, "items") => StoredItems(order_items', id) = body.items
            /\ \A i \in DOMAIN orders \ {id} : orders'[i] = orders[i]
            /\ SelectSeq(order_items', LAMBDA r : r.order_id # id)
                 = SelectSeq(order_items, LAMBDA r : r.order_id # id)]_vars

\* C20 witness: an update that supplied only the date of one of two orders;
\* the order has its name, payment, status, items and total of before
C20_Witness ==
  /\ req.op = "update" /\ res.code = 200
  /\ DOMAIN req.body = {"order_date"}
  /\ orders[req.id].order_date = req.body.order_date
  /\ orders[req.id].name = CreateReference.name
  /\ orders[req.id].payment = CreateReference.payment
  /\ orders[req.id].status = "pending"
  /\ orders[req.id].total = Meat.subtotal + Chicken.subtotal
  /\ StoredItems(order_items, req.id) = <<Meat, Chicken>>
  /\ \E q \in DOMAIN orders : q # req.id

\* C21: the status of every stored order is pending, paid or cancelled, and
\* the status of every history record is paid or cancelled
C21_StatusEnum ==
  /\ \A id \in DOMAIN orders : orders[id].status \in {"pending", "paid", "cancelled"}
  /\ \A k \in DOMAIN history : history[k].status \in {"paid", "cancelled"}

\* C22: updates that overlap on one pending order and each set a terminal
\* status leave at most one history record of that order
C22_OneRecordUnderOverlap ==
  \A id \in OrderIds : Len(SelectSeq(history, LAMBDA h : h.order_id = id)) <= 1

\* C23: when no update is open, the total of every order is the sum of the
\* subtotals of its stored line items, whatever the overlap of the updates
\* that committed
C23_TotalUnderOverlap ==
  (\A c \in Clients : txns[c] = Idle) =>
    \A id \in DOMAIN orders : orders[id].total = SumSubtotals(SelectItems(Db, id))

\* C25: the stats response of the sqlite server is the bundle of the store as
\* it is when the response is sent; the pg server may answer with figures of
\* different states
C25_SyncStatsOneState ==
  (variant = "sqlite" /\ req.op = "stats") => res.body = stats(Db).body

\* C25 witness: pg answered a stats request with no paid order and a revenue
\* above zero: the count was read before an update committed, the sum after
C25_Witness ==
  /\ variant = "pg"
  /\ req.op = "stats"
  /\ res.body.paid = 0
  /\ res.body.revenue > 0
  /\ res.body.revenue = revenue(Db)
  /\ \A id \in DOMAIN orders : orders[id].total > 0

\* C24: the body of a successful update is the order as it is stored after
\* the update: its name, phone, payment, status, date, total and items
C24_ReturnsCommitted ==
  (req.op = "update" /\ res.code = 200) =>
    /\ req.id \in DOMAIN orders
    /\ res.body = getOrderWithItems(Db, req.id)

\* C26: every stored order has at least one line item
C26_OrderHasItems ==
  \A id \in DOMAIN orders : Len(SelectItems(Db, id)) >= 1

====
